---------------------------- MODULE Spec2Model ----------------------------
(***************************************************************************)
(* A model of the ray tracer: the f32 arithmetic of the slab test, the     *)
(* shapes and their intersection kernels, the BVH build and query, the     *)
(* trace recursion, the parallel pixel loop and the Canvas surface.        *)
(*                                                                         *)
(* Numbers.  Coordinates are integers (exactly representable f32 values).  *)
(* The three special f32 values the slab test produces are the sentinels   *)
(* PosInf, NegInf and NaN; the F* operators implement IEEE-754 on them.    *)
(* A quantity the code obtains by a division that is not exact on the      *)
(* integer grid is kept as an exact fraction: a vector with a denominator  *)
(* field den (x/den, y/den, z/den), or a scalar [n, d].                    *)
(* Option<T> is a sequence: <<>> is None and <<v>> is Some(v).             *)
(***************************************************************************)
EXTENDS Integers, Sequences, FiniteSets, TLC

-----------------------------------------------------------------------------
(* f32 special values and IEEE-754 arithmetic on them *)

PosInf == 1000000
NegInf == -1000000
NaN == 2000000

IsNaN(a) == a = NaN
IsInf(a) == a = PosInf \/ a = NegInf
IsFinite(a) == ~IsNaN(a) /\ ~IsInf(a)

Sign(a) == IF a > 0 THEN 1 ELSE IF a < 0 THEN -1 ELSE 0

\* a - b
FSub(a, b) ==
  IF IsNaN(a) \/ IsNaN(b) THEN NaN
  ELSE IF IsInf(a) THEN (IF a = b THEN NaN ELSE a)
  ELSE IF IsInf(b) THEN (IF b = PosInf THEN NegInf ELSE PosInf)
  ELSE a - b

\* a * b: 0 * inf is NaN
FMul(a, b) ==
  IF IsNaN(a) \/ IsNaN(b) THEN NaN
  ELSE IF IsInf(a) \/ IsInf(b)
       THEN (IF a = 0 \/ b = 0 THEN NaN
             ELSE IF Sign(a) * Sign(b) > 0 THEN PosInf ELSE NegInf)
  ELSE a * b

\* f32::min: when one argument is NaN the other is returned
FMin(a, b) ==
  IF IsNaN(a) THEN b ELSE IF IsNaN(b) THEN a ELSE IF a < b THEN a ELSE b

\* f32::max: when one argument is NaN the other is returned
FMax(a, b) ==
  IF IsNaN(a) THEN b ELSE IF IsNaN(b) THEN a ELSE IF a > b THEN a ELSE b

\* a >= b: false when either is NaN
FGe(a, b) == ~IsNaN(a) /\ ~IsNaN(b) /\ a >= b

\* 1.0 / a for a component of an axis-aligned unit direction: 1/(+0.0) = +inf
Recip(a) == CASE a = 0 -> PosInf [] a = 1 -> 1 [] a = -1 -> -1

\* f32::signum: 1.0 for a positive number and for +0.0
Signum(a) == IF a >= 0 THEN 1 ELSE -1

\* f32::sqrt of a perfect square
Sqrt(n) == CHOOSE k \in 0..n : k * k = n

IsSquare(n) == \E k \in 0..n : k * k = n

Abs(a) == IF a < 0 THEN -a ELSE a

-----------------------------------------------------------------------------
(* glam::Vec3 *)

Vec(a, b, c) == [x |-> a, y |-> b, z |-> c]

VAdd(u, v) == Vec(u.x + v.x, u.y + v.y, u.z + v.z)
VSub(u, v) == Vec(u.x - v.x, u.y - v.y, u.z - v.z)
VScale(u, k) == Vec(u.x * k, u.y * k, u.z * k)
VNeg(u) == Vec(-u.x, -u.y, -u.z)
Dot(u, v) == u.x * v.x + u.y * v.y + u.z * v.z
Cross(u, v) ==
  Vec(u.y * v.z - u.z * v.y, u.z * v.x - u.x * v.z, u.x * v.y - u.y * v.x)
DistanceSquared(u, v) == Dot(VSub(u, v), VSub(u, v))
VMin(u, v) == Vec(FMin(u.x, v.x), FMin(u.y, v.y), FMin(u.z, v.z))
VMax(u, v) == Vec(FMax(u.x, v.x), FMax(u.y, v.y), FMax(u.z, v.z))

\* A vector divided by a scalar, kept exact: (x/den, y/den, z/den), den > 0
QVec(v, d) == [x |-> v.x, y |-> v.y, z |-> v.z, den |-> d]
QNeg(q) == [x |-> -q.x, y |-> -q.y, z |-> -q.z, den |-> q.den]

\* Vec3::normalize: v / |v|, for a vector whose length is an integer
Normalize(v) == QVec(v, Sqrt(Dot(v, v)))


\* Mutant of Rat: the sign of the divisor is dropped
RatUnsigned(n, a) == [n |-> n, d |-> Abs(a)]

\* An exact fraction n/d with d > 0, from a numerator and a non-zero divisor
Rat(n, a) == [n |-> n * Sign(a), d |-> Abs(a)]

\* n / d where d divides n
ExactDiv(n, d) == CHOOSE q \in -Abs(n)..Abs(n) : q * d = n

-----------------------------------------------------------------------------
(* shape.rs: Rect, Sphere, Plane, Triangle, Ray *)

Rect(lo, hi) == [min |-> lo, max |-> hi]

VZero == Vec(0, 0, 0)

\* A shape object: id is its identity (the reference held by the scene)
Sphere(i, p, r) ==
  [id |-> i, kind |-> "sphere", pos |-> p, radius |-> r, normal |-> VZero,
   p0 |-> VZero, p1 |-> VZero, p2 |-> VZero]

Plane(i, p, n) ==
  [id |-> i, kind |-> "plane", pos |-> p, radius |-> 0, normal |-> n,
   p0 |-> VZero, p1 |-> VZero, p2 |-> VZero]

Triangle(i, a, b, c) ==
  [id |-> i, kind |-> "triangle", pos |-> VZero, radius |-> 0, normal |-> VZero,
   p0 |-> a, p1 |-> b, p2 |-> c]

Ray(s, d) == [start |-> s, dir |-> d]

\* Mutant of Edge2: the edge is taken from p1, as edge3 is
Edge2FromP1(t) == VSub(t.p2, t.p1)

\* Triangle::precompute
Edge1(t) == VSub(t.p1, t.p0)
Edge2(t) == VSub(t.p2, t.p0)
TriNormal(t) == QNeg(Normalize(Cross(Edge1(t), Edge2(t))))

RectInfinite ==
  Rect(Vec(NegInf, NegInf, NegInf), Vec(PosInf, PosInf, PosInf))

\* Rect::order_components: both lines read the unmodified clone
OrderComponents(r) == Rect(VMin(r.min, r.max), VMax(r.max, r.min))

\* Shape::position
Position(s) ==
  IF s.kind = "triangle"
  THEN QVec(VAdd(VAdd(s.p0, s.p1), s.p2), 3)
  ELSE QVec(s.pos, 1)

\* Shape::bounding_box
BoundingBox(s) ==
  CASE s.kind = "sphere" ->
         OrderComponents(Rect(Vec(s.pos.x - s.radius, s.pos.y - s.radius,
                                  s.pos.z - s.radius),
                              Vec(s.pos.x + s.radius, s.pos.y + s.radius,
                                  s.pos.z + s.radius)))
    [] s.kind = "plane" ->
         IF Abs(s.normal.y) = 1
         THEN Rect(Vec(NegInf, s.pos.y, NegInf), Vec(PosInf, s.pos.y, PosInf))
         ELSE RectInfinite
    [] s.kind = "triangle" ->
         Rect(VMin(s.p0, VMin(s.p1, s.p2)), VMax(s.p0, VMax(s.p1, s.p2)))

-----------------------------------------------------------------------------
(* intersection.rs *)

\* One axis of the slab test: <<min(t1, t2), max(t1, t2)>>
Slab(lo, hi, start, inv) ==
  LET t1 == FMul(FSub(lo, start), inv)
      t2 == FMul(FSub(hi, start), inv)
  IN  <<FMin(t1, t2), FMax(t1, t2)>>

\* impl Intersection<Ray> for Rect
RectIntersectsRay(rect, ray) ==
  LET sx == Slab(rect.min.x, rect.max.x, ray.start.x, Recip(ray.dir.x))
      sy == Slab(rect.min.y, rect.max.y, ray.start.y, Recip(ray.dir.y))
      sz == Slab(rect.min.z, rect.max.z, ray.start.z, Recip(ray.dir.z))
      tmin == FMax(FMax(sx[1], sy[1]), sz[1])
      tmax == FMin(FMin(sx[2], sy[2]), sz[2])
  IN  FGe(tmax, FMax(tmin, 0))

Inter(p, n, f, s) == [point |-> p, normal |-> n, front |-> f, shape |-> s]

\* Mutant of SphereFront: the comparison is not multiplied by the sign
SphereFrontNoSign(s, ray) ==
  ~(DistanceSquared(s.pos, ray.start) <= s.radius * s.radius)

\* The front/back test of Sphere::ray_intersection
SphereFront(s, ray) ==
  LET sgn == Signum(s.radius)
  IN  ~(DistanceSquared(s.pos, ray.start) * sgn <= s.radius * s.radius * sgn)

\* The root t of Sphere::ray_intersection: <<>> when the ray misses
SphereRoot(s, ray) ==
  LET to_center == VSub(s.pos, ray.start)
      b == Dot(to_center, ray.dir)
      c == Dot(to_center, to_center) - s.radius * s.radius
      discriminant == b * b - c
  IN  IF discriminant < 0 THEN <<>>
      ELSE LET discr_sqrt == Sqrt(discriminant)
               t1 == b - discr_sqrt
               t2 == b + discr_sqrt
           IN  IF t1 < 0 THEN (IF t2 < 0 THEN <<>> ELSE <<t2>>) ELSE <<t1>>

\* impl Traceable for Sphere: ray_intersection
SphereRayIntersection(s, ray) ==
  LET root == SphereRoot(s, ray)
  IN  IF root = <<>> THEN <<>>
      ELSE LET point == VAdd(ray.start, VScale(ray.dir, root[1]))
               dist == Normalize(VSub(point, s.pos))
               front == SphereFront(s, ray)
           IN  <<Inter(point, IF front THEN dist ELSE QNeg(dist), front, s.id)>>

\* impl Traceable for Plane: ray_intersection
PlaneRayIntersection(s, ray) ==
  LET denom == Dot(s.normal, ray.dir)
  IN  IF denom = 0 THEN <<>>
      ELSE LET dist == VSub(s.pos, ray.start)
               t == Rat(Dot(s.normal, dist), denom)
           IN  IF t.n >= 0
               THEN <<Inter(VAdd(ray.start,
                                 Vec(ExactDiv(ray.dir.x * t.n, t.d),
                                     ExactDiv(ray.dir.y * t.n, t.d),
                                     ExactDiv(ray.dir.z * t.n, t.d))),
                            QVec(s.normal, 1), FALSE, s.id)>>
               ELSE <<>>

\* impl Traceable for Triangle: ray_intersection (Moller-Trumbore)
TriangleRayIntersection(s, ray) ==
  LET h == Cross(ray.dir, Edge2(s))
      a == Dot(Edge1(s), h)
  IN  IF a = 0 THEN <<>>
      ELSE LET sv == VSub(ray.start, s.p0)
               u == Rat(Dot(sv, h), a)
               q == Cross(sv, Edge1(s))
               v == Rat(Dot(ray.dir, q), a)
               t == Rat(Dot(Edge2(s), q), a)
               n == TriNormal(s)
               normal == IF Dot(ray.dir, n) < 0 THEN n ELSE QNeg(n)
           IN  IF u.n < 0 \/ u.n > u.d THEN <<>>
               ELSE IF v.n < 0 \/ u.n + v.n > u.d THEN <<>>
               ELSE IF t.n > 0
                    THEN <<Inter(VAdd(ray.start,
                                      Vec(ExactDiv(ray.dir.x * t.n, t.d),
                                          ExactDiv(ray.dir.y * t.n, t.d),
                                          ExactDiv(ray.dir.z * t.n, t.d))),
                                 normal, TRUE, s.id)>>
                    ELSE <<>>

\* Traceable::ray_intersection, dispatched on the shape
RayIntersection(s, ray) ==
  CASE s.kind = "sphere" -> SphereRayIntersection(s, ray)
    [] s.kind = "plane" -> PlaneRayIntersection(s, ray)
    [] s.kind = "triangle" -> TriangleRayIntersection(s, ray)

-----------------------------------------------------------------------------
(* bvh.rs *)

\* Mutant of BvhNew: the leaf gets Rect::infinite() for its bound
BvhNewInfinite(bound, shape) ==
  [lhs |-> <<>>, rhs |-> <<>>, bound |-> RectInfinite, shape |-> <<shape>>]

\* Bvh::new: a leaf
BvhNew(bound, shape) ==
  [lhs |-> <<>>, rhs |-> <<>>, bound |-> bound, shape |-> <<shape>>]

\* Mutant of UnionBound: the bound stays the left child's
UnionBoundLhsOnly(a, b) == a

\* The bound computed by Bvh::from_child
UnionBound(a, b) == Rect(VMin(a.min, b.min), VMax(a.max, b.max))

\* Mutant of FromChild: the right child is not stored
FromChildNoRhs(lhs, rhs) ==
  [lhs |-> <<lhs>>, rhs |-> <<>>,
   bound |-> Rect(VMin(lhs.bound.min, rhs.bound.min),
                  VMax(lhs.bound.max, rhs.bound.max)),
   shape |-> <<>>]

\* Bvh::from_child: an inner node
FromChild(lhs, rhs) ==
  [lhs |-> <<lhs>>, rhs |-> <<rhs>>,
   bound |-> UnionBound(lhs.bound, rhs.bound), shape |-> <<>>]

\* Mutant of SortLess: every level compares x
SortLessXOnly(a, b, dim) ==
  LET pa == Position(a)
      pb == Position(b)
  IN  pa.x * pb.den < pb.x * pa.den

\* The comparator of Bvh::construct: a is ordered strictly before b
SortLess(a, b, dim) ==
  LET pa == Position(a)
      pb == Position(b)
  IN  IF dim % 2 = 0
      THEN pa.x * pb.den < pb.x * pa.den
      ELSE pa.y * pb.den < pb.y * pa.den

\* slice::sort_by is a stable sort: e goes after every element not greater
RECURSIVE SortInsert(_, _, _)
SortInsert(sorted, e, dim) ==
  IF sorted = <<>> THEN <<e>>
  ELSE IF SortLess(e, sorted[Len(sorted)], dim)
       THEN Append(SortInsert(SubSeq(sorted, 1, Len(sorted) - 1), e, dim),
                   sorted[Len(sorted)])
       ELSE Append(sorted, e)

RECURSIVE SortBy(_, _)
SortBy(shapes, dim) ==
  IF shapes = <<>> THEN <<>>
  ELSE SortInsert(SortBy(SubSeq(shapes, 1, Len(shapes) - 1), dim),
                  shapes[Len(shapes)], dim)

\* Mutant of SplitRight: the right half starts one element late
SplitRightSkip(shapes) == SubSeq(shapes, Len(shapes) \div 2 + 2, Len(shapes))

\* Mutant of SplitLeft: the left half is the first element alone
SplitLeftOne(shapes) == SubSeq(shapes, 1, 1)

\* shapes.split_at_mut(shapes.len() / 2)
SplitLeft(shapes) == SubSeq(shapes, 1, Len(shapes) \div 2)
SplitRight(shapes) == SubSeq(shapes, Len(shapes) \div 2 + 1, Len(shapes))

\* Bvh::construct: <<tree>>, or <<>> when it panics ("Empty vector")
RECURSIVE Construct(_, _)
Construct(shapes, dim) ==
  IF Len(shapes) = 0 THEN <<>>
  ELSE IF Len(shapes) = 1
       THEN <<BvhNew(BoundingBox(shapes[1]), shapes[1])>>
       ELSE LET sorted == SortBy(shapes, dim)
                left == Construct(SplitLeft(sorted), dim + 1)
                right == Construct(SplitRight(sorted), dim + 1)
            IN  IF left = <<>> \/ right = <<>> THEN <<>>
                ELSE <<FromChild(left[1], right[1])>>

\* The slice after Bvh::construct: each level sorts its part in place
RECURSIVE SortedSlice(_, _)
SortedSlice(shapes, dim) ==
  IF Len(shapes) <= 1 THEN shapes
  ELSE LET sorted == SortBy(shapes, dim)
       IN  SortedSlice(SplitLeft(sorted), dim + 1)
             \o SortedSlice(SplitRight(sorted), dim + 1)

\* Bvh::intersects unwraps an absent child (a panic) somewhere on its way
RECURSIVE IntersectsPanics(_, _)
IntersectsPanics(node, ray) ==
  IF ~RectIntersectsRay(node.bound, ray) THEN FALSE
  ELSE IF node.shape # <<>> THEN FALSE
  ELSE IF node.lhs = <<>> THEN TRUE
  ELSE IF IntersectsPanics(node.lhs[1], ray) THEN TRUE
  ELSE IF node.rhs = <<>> THEN TRUE
  ELSE IntersectsPanics(node.rhs[1], ray)

\* The choice between the two children's hits in Bvh::intersects
NearerHit(left, right, ray) ==
  IF left # <<>>
  THEN IF right # <<>>
       THEN IF DistanceSquared(left[1].point, ray.start)
                 < DistanceSquared(right[1].point, ray.start)
            THEN left ELSE right
       ELSE left
  ELSE right

\* Bvh::intersects
RECURSIVE Intersects(_, _)
Intersects(node, ray) ==
  IF ~RectIntersectsRay(node.bound, ray) THEN <<>>
  ELSE IF node.shape # <<>> THEN RayIntersection(node.shape[1], ray)
  ELSE IF node.lhs = <<>> \/ node.rhs = <<>> THEN <<>>
  ELSE NearerHit(Intersects(node.lhs[1], ray), Intersects(node.rhs[1], ray), ray)

\* main.rs intersection: brute force, min_by keeps the first of equal minima
RECURSIVE BruteForce(_, _)
BruteForce(scene, ray) ==
  IF scene = <<>> THEN <<>>
  ELSE LET rest == BruteForce(SubSeq(scene, 1, Len(scene) - 1), ray)
           hit == RayIntersection(scene[Len(scene)], ray)
       IN  IF hit = <<>> THEN rest
           ELSE IF rest = <<>> THEN hit
           ELSE IF DistanceSquared(hit[1].point, ray.start)
                     < DistanceSquared(rest[1].point, ray.start)
                THEN hit ELSE rest

\* The shapes in the leaves of a tree, left to right
RECURSIVE Leaves(_)
Leaves(node) ==
  (IF node.shape # <<>> THEN <<node.shape[1]>> ELSE <<>>)
  \o (IF node.lhs # <<>> THEN Leaves(node.lhs[1]) ELSE <<>>)
  \o (IF node.rhs # <<>> THEN Leaves(node.rhs[1]) ELSE <<>>)

\* Every node of a tree, the root first
RECURSIVE Nodes(_)
Nodes(node) ==
  <<node>>
  \o (IF node.lhs # <<>> THEN Nodes(node.lhs[1]) ELSE <<>>)
  \o (IF node.rhs # <<>> THEN Nodes(node.rhs[1]) ELSE <<>>)

-----------------------------------------------------------------------------
(* The inputs: bounded sets of shapes, scenes and rays *)

\* Most shapes in a scene
MaxShapes == 3
\* Ray origins have coordinates in -1..Grid
Grid == 2

\* The shape objects a scene is drawn from: two touching unit spheres (equal
\* y), an inside-out sphere (equal x with the first), a triangle and the
\* ground plane
Catalogue ==
  << Sphere(1, Vec(0, 0, 0), 1),
     Sphere(2, Vec(2, 0, 0), 1),
     Sphere(3, Vec(0, 2, 0), -1),
     Triangle(4, Vec(0, 0, -1), Vec(2, 0, -1), Vec(0, 2, -1)),
     Plane(5, Vec(0, -1, 0), Vec(0, 1, 0)) >>

\* Sequences of distinct shape objects, at most n long
RECURSIVE ScenesOfLen(_)
ScenesOfLen(n) ==
  IF n = 0 THEN {<<>>}
  ELSE {Append(sc, Catalogue[i]) :
          sc \in ScenesOfLen(n - 1),
          i \in 1..Len(Catalogue)}

Distinct(sc) == \A i, j \in 1..Len(sc) : i # j => sc[i].id # sc[j].id

Scenes ==
  UNION {{sc \in ScenesOfLen(n) : Distinct(sc)} : n \in 0..MaxShapes}

\* Unit directions along the axes
Dirs ==
  {Vec(1, 0, 0), Vec(-1, 0, 0), Vec(0, 1, 0), Vec(0, -1, 0),
   Vec(0, 0, 1), Vec(0, 0, -1)}

Coords == -1..Grid

Rays ==
  {Ray(Vec(a, b, c), d) : a \in Coords, b \in Coords, c \in Coords, d \in Dirs}

-----------------------------------------------------------------------------
(* State *)

VARIABLES
  pc,          \* where the program is
  ray,         \* Option<Ray>: the ray of the last query
  \* main.rs and bvh.rs: the scene and its BVH
  scene,       \* main's shapes: the scene, in input order
  shapes_ref,  \* the slice of references handed to Bvh::construct
  bvh,         \* Option<Bvh>: the tree built from the scene
  bvhHit,      \* what Bvh::intersects returned for the ray
  bruteHit,    \* what the brute-force intersection returned for it
  \* intersection.rs: one Rect and one Sphere against the ray
  rect,        \* Option<Rect>
  rectHit,     \* Option<bool>: what Rect::intersects(ray) returned
  sphere,      \* Option<Sphere>
  sphereHit,   \* what Sphere::ray_intersection(ray) returned
  \* main.rs trace: one path
  count0,      \* the count argument of the outermost call
  count,       \* the count argument of the call in progress
  queries,     \* calls of scene.intersects made by the path so far
  result,      \* Option: what the innermost call returned
  \* main.rs: the parallel pixel loop
  next,        \* the index of the item the shared iterator yields next
  stage,       \* per worker: "idle", "got", "wrote" or "exit"
  holding,     \* per worker: the pixel whose &mut it holds, or 0
  writes,      \* per pixel: how many times it was assigned
  writers,     \* per pixel: the workers that assigned it
  gammaNext,   \* the index of the channel the gamma pass maps next
  gammaDone,   \* per channel: how many times the gamma pass mapped it
  saved,       \* canvas.save was called
  \* canvas.rs: Canvas
  debug,       \* cfg!(debug_assertions)
  data,        \* Canvas.data, row-major, indexed from 0
  lastOp,      \* Option: the coordinates of the last set or add
  \* texture.rs: Texture::sample
  texture,     \* Option<Texture>
  uv,          \* Option: the arguments (u, v)
  sampled,     \* Option<Color>: what sample returned
  \* intersection.rs: one Plane or Triangle against the ray
  shape,       \* Option: the shape
  shapeHit,    \* what its ray_intersection(ray) returned
  \* main.rs trace: the branch of a ray that hits nothing
  light_source,\* Option<Vec3>
  missColor,   \* Option<Color>: what the branch returned
  \* main.rs: one channel of one pixel in the closure of the pixel loop
  samples,     \* how many trace results were added
  color,       \* the channel's running sum
  pixel,       \* Option<u8>: the channel of *pixel after color.into()
  \* main.rs: the gamma correction of one channel
  gammaIn,     \* Option<u8>: *p before
  gammaOut,    \* Option<u8>: *p after
  \* main.rs: the progress counter of the pixel loop
  counter,     \* the AtomicUsize count
  val,         \* per worker: what its fetch_add returned, or -1
  seen,        \* per value: how many fetch_add calls returned it
  printed      \* per percentage: how many lines were printed for it

bvhVars == <<scene, shapes_ref, bvh, bvhHit, bruteHit>>
kernelVars == <<rect, rectHit, sphere, sphereHit>>
traceVars == <<count0, count, queries, result>>
renderVars == <<next, stage, holding, writes, writers, gammaNext, gammaDone, saved>>
canvasVars == <<debug, data, lastOp>>
textureVars == <<texture, uv, sampled>>
shapeVars == <<shape, shapeHit>>
skyVars == <<light_source, missColor>>
pixelVars == <<samples, color, pixel>>
gammaVars == <<gammaIn, gammaOut>>
progressVars == <<counter, val, seen, printed>>

\* The state of the specifications of single functions
unitVars == <<textureVars, shapeVars, skyVars, pixelVars, gammaVars, progressVars>>

vars ==
  <<pc, ray, bvhVars, kernelVars, traceVars, renderVars, canvasVars, unitVars>>

\* The parts of the state a specification does not use
IdleBvh ==
  scene = <<>> /\ shapes_ref = <<>> /\ bvh = <<>> /\ bvhHit = <<>> /\ bruteHit = <<>>

IdleKernel == rect = <<>> /\ rectHit = <<>> /\ sphere = <<>> /\ sphereHit = <<>>

IdleTrace == count0 = 0 /\ count = 0 /\ queries = 0 /\ result = <<>>

IdleRender ==
  /\ next = 0 /\ stage = <<>> /\ holding = <<>> /\ writes = <<>> /\ writers = <<>>
  /\ gammaNext = 0 /\ gammaDone = <<>> /\ saved = FALSE

IdleCanvas == debug = FALSE /\ data = <<>> /\ lastOp = <<>>

IdleTexture == texture = <<>> /\ uv = <<>> /\ sampled = <<>>

IdleShape == shape = <<>> /\ shapeHit = <<>>

IdleSky == light_source = <<>> /\ missColor = <<>>

IdlePixel == samples = 0 /\ color = 0 /\ pixel = <<>>

IdleGamma == gammaIn = <<>> /\ gammaOut = <<>>

IdleProgress == counter = 0 /\ val = <<>> /\ seen = <<>> /\ printed = <<>>

IdleUnit ==
  IdleTexture /\ IdleShape /\ IdleSky /\ IdlePixel /\ IdleGamma /\ IdleProgress

\* The state outside the scene, the BVH and the kernels
IdleRest == IdleTrace /\ IdleRender /\ IdleCanvas /\ IdleUnit

restVars == <<traceVars, renderVars, canvasVars, unitVars>>

-----------------------------------------------------------------------------
(* SpecBvh: build the BVH of a scene, then query it with a ray *)

InitBvh ==
  /\ pc = "scene"
  /\ scene \in Scenes
  /\ shapes_ref = scene
  /\ bvh = <<>>
  /\ ray = <<>>
  /\ bvhHit = <<>>
  /\ bruteHit = <<>>
  /\ IdleKernel
  /\ IdleRest

\* main.rs: let bvh = Bvh::construct(&mut shapes_ref, 0); the panic of an
\* empty scene ends the program
BuildBvh ==
  /\ pc = "scene"
  /\ bvh' = Construct(shapes_ref, 0)
  /\ shapes_ref' = SortedSlice(shapes_ref, 0)
  /\ pc' = IF Construct(shapes_ref, 0) = <<>> THEN "panicked" ELSE "built"
  /\ UNCHANGED <<scene, ray, bvhHit, bruteHit, kernelVars, restVars>>

\* One ray through the tree (Bvh::intersects) and through the flat list
\* (intersection): unwrapping an absent child panics
QueryBvh ==
  /\ pc = "built"
  /\ \E r \in Rays :
       /\ ray' = <<r>>
       /\ bvhHit' = Intersects(bvh[1], r)
       /\ bruteHit' = BruteForce(scene, r)
       /\ pc' = IF IntersectsPanics(bvh[1], r) THEN "unwrapped" ELSE "queried"
  /\ UNCHANGED <<scene, shapes_ref, bvh, kernelVars, restVars>>

NextBvh == BuildBvh \/ QueryBvh

SpecBvh == InitBvh /\ [][NextBvh]_vars

\* The tree exists: the build returned
Built == pc \in {"built", "queried", "unwrapped"}

Count(seq, e) == Cardinality({i \in 1..Len(seq) : seq[i] = e})

\* C1: for a non-empty scene the tree returned by Bvh::construct(shapes, 0)
\* holds every input shape in exactly one leaf, and no leaf holds a shape
\* that was not in the input.
C1_Coverage ==
  Built =>
    LET leaves == Leaves(bvh[1])
    IN  /\ \A i \in 1..Len(scene) : Count(leaves, scene[i]) = 1
        /\ \A j \in 1..Len(leaves) : \E i \in 1..Len(scene) : leaves[j] = scene[i]

C1_Witness == pc = "built" /\ Len(scene) = 3 /\ Len(Leaves(bvh[1])) = 3

\* C2: Bvh::intersects returns None exactly when the brute-force search
\* over all shapes finds no hit, and otherwise a hit at the same (least)
\* squared distance from ray.start.
C2_BvhEqualsBruteForce ==
  pc = "queried" =>
    /\ (bvhHit = <<>>) <=> (bruteHit = <<>>)
    /\ (bvhHit # <<>> /\ bruteHit # <<>>) =>
         DistanceSquared(bvhHit[1].point, ray[1].start)
           = DistanceSquared(bruteHit[1].point, ray[1].start)

\* Rect a contains Rect b, componentwise
Contains(a, b) ==
  /\ a.min.x <= b.min.x /\ a.min.y <= b.min.y /\ a.min.z <= b.min.z
  /\ a.max.x >= b.max.x /\ a.max.y >= b.max.y /\ a.max.z >= b.max.z

Smaller(a, b) == IF a <= b THEN a ELSE b
Larger(a, b) == IF a >= b THEN a ELSE b

\* C3: each node's bound contains the bounding_box() of every shape in a
\* leaf of its subtree, and an inner node's bound is exactly the
\* componentwise union of its two children's bounds.
C3_Bounds ==
  Built =>
    LET nodes == Nodes(bvh[1])
    IN  \A k \in 1..Len(nodes) :
          LET n == nodes[k]
              leaves == Leaves(n)
          IN  /\ \A j \in 1..Len(leaves) :
                   Contains(n.bound, BoundingBox(leaves[j]))
              /\ (n.lhs # <<>> /\ n.rhs # <<>>) =>
                   LET l == n.lhs[1].bound
                       r == n.rhs[1].bound
                   IN  /\ n.bound.min.x = Smaller(l.min.x, r.min.x)
                       /\ n.bound.min.y = Smaller(l.min.y, r.min.y)
                       /\ n.bound.min.z = Smaller(l.min.z, r.min.z)
                       /\ n.bound.max.x = Larger(l.max.x, r.max.x)
                       /\ n.bound.max.y = Larger(l.max.y, r.max.y)
                       /\ n.bound.max.z = Larger(l.max.z, r.max.z)

\* An inner node over a sphere and the plane, whose box is unbounded
C3_Witness ==
  /\ pc = "built"
  /\ Len(scene) = 3
  /\ bvh[1].bound.min.x = NegInf
  /\ \E i \in 1..3 : scene[i].kind = "sphere" /\ scene[i].radius < 0

IsLeaf(n) == n.shape # <<>> /\ n.lhs = <<>> /\ n.rhs = <<>>
IsInner(n) == n.shape = <<>> /\ n.lhs # <<>> /\ n.rhs # <<>>

\* C4: every node of a built tree is a leaf (a shape, no children) or an
\* inner node (no shape, two children), and Bvh::intersects never unwraps
\* an absent child.
C4_NodeShape ==
  /\ Built =>
       LET nodes == Nodes(bvh[1])
       IN  \A k \in 1..Len(nodes) : IsLeaf(nodes[k]) \/ IsInner(nodes[k])
  /\ pc # "unwrapped"

\* A query that went through an inner node down to both children
C4_Witness ==
  /\ pc = "queried"
  /\ Len(scene) = 3
  /\ IsInner(bvh[1])
  /\ RectIntersectsRay(bvh[1].lhs[1].bound, ray[1])
  /\ RectIntersectsRay(bvh[1].rhs[1].bound, ray[1])

\* C5: Bvh::construct on an empty sequence panics and produces no tree; on
\* a sequence of one shape it produces a single leaf carrying that shape
\* and that shape's bounding_box().
C5_EmptyAndSingle ==
  pc # "scene" =>
    /\ Len(scene) = 0 => pc = "panicked" /\ bvh = <<>>
    /\ Len(scene) = 1 =>
         /\ Built
         /\ bvh = << [lhs |-> <<>>, rhs |-> <<>>,
                      bound |-> BoundingBox(scene[1]),
                      shape |-> <<scene[1]>>] >>

C5_WitnessEmpty == pc = "panicked" /\ scene = <<>>

C5_Witness ==
  \/ C5_WitnessEmpty
  \/ pc = "built" /\ Len(scene) = 1 /\ scene[1].kind = "sphere"

-----------------------------------------------------------------------------
(* SpecRect: Rect::intersects(ray), the slab test *)

\* The boxes: the unit cube, the boxes of the catalogue's shapes (the
\* triangle's is flat, the plane's unbounded) and Rect::infinite()
Rects ==
  {Rect(Vec(0, 0, 0), Vec(1, 1, 1)), RectInfinite}
    \cup {BoundingBox(Catalogue[i]) : i \in 1..Len(Catalogue)}

InitRect ==
  /\ pc = "rect"
  /\ rect \in {<<b>> : b \in Rects}
  /\ ray \in {<<r>> : r \in Rays}
  /\ rectHit = <<>>
  /\ sphere = <<>>
  /\ sphereHit = <<>>
  /\ IdleBvh
  /\ IdleRest

\* self.bound.intersects(ray)
TestRect ==
  /\ pc = "rect"
  /\ rectHit' = <<RectIntersectsRay(rect[1], ray[1])>>
  /\ pc' = "rectDone"
  /\ UNCHANGED <<ray, rect, sphere, sphereHit, bvhVars, restVars>>

NextRect == TestRect

SpecRect == InitRect /\ [][NextRect]_vars

\* The parameters t that can matter on the integer grid: the ray enters and
\* leaves a box at integer t no larger than the span of the coordinates
Reach == 2 * Grid + 4

\* start + t * dir
PointAt(r, t) == VAdd(r.start, VScale(r.dir, t))

\* impl Intersection<Vec3> for Rect: the point lies in the closed box
InBox(b, p) ==
  /\ p.x >= b.min.x /\ p.y >= b.min.y /\ p.z >= b.min.z
  /\ p.x <= b.max.x /\ p.y <= b.max.y /\ p.z <= b.max.z

\* C10: Rect::intersects(ray) is true exactly when some t >= 0 puts
\* start + t*dir inside the closed box, also for a ray with a zero direction
\* component.
C10_SlabIffEnters ==
  pc = "rectDone" =>
    (rectHit[1] <=> \E t \in 0..Reach : InBox(rect[1], PointAt(ray[1], t)))

-----------------------------------------------------------------------------
(* SpecSphere: Sphere::ray_intersection *)

\* Unit spheres and spheres of radius 5, outward and inside-out
TestSpheres ==
  {Sphere(1, Vec(0, 0, 0), r) : r \in {1, -1, 5, -5}}
    \cup {Sphere(1, Vec(1, 0, 1), r) : r \in {1, -1}}

\* Origins at distances 3, 4 and 5 along the axes, where a sphere of radius
\* 5 is met at integer points
FarCoords == {-5, -4, -3, 0, 3, 4, 5}

SphereRays ==
  Rays \cup {Ray(Vec(a, b, c), d) :
               a \in FarCoords, b \in FarCoords, c \in FarCoords, d \in Dirs}

\* The discriminant of the pair has an integer square root (or is negative)
ExactRoot(s, r) ==
  LET to_center == VSub(s.pos, r.start)
      b == Dot(to_center, r.dir)
      disc == b * b - (Dot(to_center, to_center) - s.radius * s.radius)
  IN  disc < 0 \/ IsSquare(disc)

InitSphere ==
  /\ pc = "sphere"
  /\ sphere \in {<<s>> : s \in TestSpheres}
  /\ ray \in {<<r>> : r \in SphereRays}
  /\ ExactRoot(sphere[1], ray[1])
  /\ sphereHit = <<>>
  /\ rect = <<>>
  /\ rectHit = <<>>
  /\ IdleBvh
  /\ IdleRest

\* shape.ray_intersection(ray) on a sphere
TestSphere ==
  /\ pc = "sphere"
  /\ sphereHit' = SphereRayIntersection(sphere[1], ray[1])
  /\ pc' = "sphereDone"
  /\ UNCHANGED <<ray, sphere, rect, rectHit, bvhVars, restVars>>

NextSphere == TestSphere

SpecSphere == InitSphere /\ [][NextSphere]_vars

\* |start - center|^2 of the tested pair
StartDist2 == DistanceSquared(sphere[1].pos, ray[1].start)
Radius2 == sphere[1].radius * sphere[1].radius

\* C9: front is false exactly when |start - center|^2 <= r^2 for r > 0 and
\* exactly when |start - center|^2 >= r^2 for r < 0; a ray whose origin is
\* inside a positive-radius sphere always gets a hit, on the sphere, with
\* front = false and the unit normal pointing from the hit point to the
\* center; a ray that starts outside and hits gets front = true and the
\* unit normal pointing away from the center.
C9_SphereFront ==
  pc = "sphereDone" =>
    LET s == sphere[1]
    IN  /\ sphereHit # <<>> =>
             /\ DistanceSquared(sphereHit[1].point, s.pos) = Radius2
             /\ s.radius > 0 => (sphereHit[1].front <=> StartDist2 > Radius2)
             /\ s.radius < 0 => (sphereHit[1].front <=> StartDist2 < Radius2)
        /\ (s.radius > 0 /\ StartDist2 <= Radius2) =>
             /\ sphereHit # <<>>
             /\ sphereHit[1].front = FALSE
             /\ sphereHit[1].normal
                  = QVec(VSub(s.pos, sphereHit[1].point), s.radius)
        /\ (s.radius > 0 /\ StartDist2 > Radius2 /\ sphereHit # <<>>) =>
             /\ sphereHit[1].front = TRUE
             /\ sphereHit[1].normal
                  = QVec(VSub(sphereHit[1].point, s.pos), s.radius)

\* A ray from strictly inside the sphere of radius 5, off its center
C9_Witness ==
  /\ pc = "sphereDone"
  /\ sphere[1].radius = 5
  /\ StartDist2 > 0 /\ StartDist2 < Radius2
  /\ sphereHit # <<>>
  /\ sphereHit[1].front = FALSE

-----------------------------------------------------------------------------
(* SpecTrace: main.rs trace, one path: each call either returns or makes  *)
(* one recursive call, so the path is a loop over the count argument.     *)
(* What scene.intersects returns for the scattered ray depends on the     *)
(* scene: both outcomes are possible at every depth.                      *)

\* const MAX_COUNT: i32 = 60
MAX_COUNT == 60

\* Mutant of DepthReached: the comparison is strict
DepthReachedStrict(c) == c > MAX_COUNT

\* if count >= MAX_COUNT { return Color::BLACK }
DepthReached(c) == c >= MAX_COUNT

\* The count argument of the recursive call
NextCount(c) == c + 1

\* The count arguments a path starts with: main passes 0
StartCounts == {0, MAX_COUNT - 1, MAX_COUNT, MAX_COUNT + 1}

notTraceVars == <<ray, bvhVars, kernelVars, renderVars, canvasVars, unitVars>>

InitTrace ==
  /\ pc = "trace"
  /\ count0 \in StartCounts
  /\ count = count0
  /\ queries = 0
  /\ result = <<>>
  /\ ray = <<>>
  /\ IdleBvh /\ IdleKernel /\ IdleRender /\ IdleCanvas /\ IdleUnit

\* count >= MAX_COUNT: return Color::BLACK
TraceLimit ==
  /\ pc = "trace"
  /\ DepthReached(count)
  /\ result' = <<"BLACK">>
  /\ pc' = "traced"
  /\ UNCHANGED <<count0, count, queries, notTraceVars>>

\* scene.intersects(&ray) is Some: scatter, then trace(.., count + 1)
TraceHit ==
  /\ pc = "trace"
  /\ ~DepthReached(count)
  /\ queries' = queries + 1
  /\ count' = NextCount(count)
  /\ UNCHANGED <<pc, count0, result, notTraceVars>>

\* scene.intersects(&ray) is None: the sun disc or the sky gradient
TraceMiss ==
  /\ pc = "trace"
  /\ ~DepthReached(count)
  /\ queries' = queries + 1
  /\ \E shadowAbove \in BOOLEAN :
       result' = IF shadowAbove THEN <<"sun">> ELSE <<"sky">>
  /\ pc' = "traced"
  /\ UNCHANGED <<count0, count, notTraceVars>>

NextTrace == TraceLimit \/ TraceHit \/ TraceMiss

\* The call runs on its thread until it returns
SpecTrace == InitTrace /\ [][NextTrace]_vars /\ WF_vars(NextTrace)

Background == {<<"sun">>, <<"sky">>}

\* What holds of every state of a path, with D = MAX_COUNT
TraceInv ==
  /\ (count0 = 0) => queries <= MAX_COUNT
  /\ (pc = "traced" /\ count0 >= MAX_COUNT) => (result = <<"BLACK">> /\ queries = 0)
  /\ result = <<"BLACK">> => (count >= MAX_COUNT /\ queries = count - count0)
  /\ result \in Background => (pc = "traced" /\ queries = count - count0 + 1)
  /\ result = <<>> => (pc = "trace" /\ queries = count - count0)

\* C6 (with D = MAX_COUNT = 60): trace terminates; a call with count >= D
\* returns BLACK without querying the BVH; each recursive call is made with
\* count + 1; a path started at 0 makes at most D queries; a miss ends the
\* recursion at once with the background colour.
C6_TraceTerminates ==
  /\ []TraceInv
  /\ [][pc' = "trace" => count' = count + 1]_vars
  /\ <>(pc = "traced")

\* C6 as stated, with the maximum depth 7: a path started at depth 0 makes
\* at most 7 BVH queries.
C6_AtMostSevenQueries == (count0 = 0) => queries <= 7

\* A path from depth 0 that was cut at the maximum depth
C6_Witness ==
  pc = "traced" /\ count0 = 0 /\ result = <<"BLACK">> /\ queries = MAX_COUNT

-----------------------------------------------------------------------------
(* SpecRender: main.rs, the parallel pixel loop.  enumerate_pixels_mut()   *)
(* yields the pixels in row-major order; par_bridge() hands the iterator   *)
(* to the workers, each of which takes the next item under a lock, runs    *)
(* the closure on it and comes back for another, until the iterator is     *)
(* exhausted.                                                              *)

\* The image is Width x Height pixels; Workers threads run the loop
Width == 2
Height == 2
Workers == 2

NumPixels == Width * Height
Pixels == 1..NumPixels
WorkerIds == 1..Workers

\* An Rgb<u8> pixel is three u8 channels; canvas.iter_mut() visits them all
ChannelsPerPixel == 3
NumChannels == ChannelsPerPixel * NumPixels
Channels == 1..NumChannels
PixelOf(c) == (c - 1) \div ChannelsPerPixel + 1

\* Mutant of GammaAdvance: the pass steps over every other channel
GammaAdvanceSkip(c) == c + 2

\* Iterator::next of canvas.iter_mut()
GammaAdvance(c) == c + 1

gammaPassVars == <<gammaNext, gammaDone, saved>>

\* Mutant of Advance: the iterator yields the same item again
AdvanceStuck(n) == n

\* Iterator::next on the pixel enumeration: the position moves on by one
Advance(n) == n + 1

notRenderVars == <<ray, bvhVars, kernelVars, traceVars, canvasVars, unitVars>>

InitRender ==
  /\ pc = "render"
  /\ next = 1
  /\ stage = [w \in WorkerIds |-> "idle"]
  /\ holding = [w \in WorkerIds |-> 0]
  /\ writes = [p \in Pixels |-> 0]
  /\ writers = [p \in Pixels |-> {}]
  /\ gammaNext = 1
  /\ gammaDone = [c \in Channels |-> 0]
  /\ saved = FALSE
  /\ ray = <<>>
  /\ IdleBvh /\ IdleKernel /\ IdleTrace /\ IdleCanvas /\ IdleUnit

\* A worker takes the next (x, y, pixel) from the shared iterator
TakePixel(w) ==
  /\ pc = "render"
  /\ stage[w] = "idle"
  /\ next <= NumPixels
  /\ holding' = [holding EXCEPT ![w] = next]
  /\ next' = Advance(next)
  /\ stage' = [stage EXCEPT ![w] = "got"]
  /\ UNCHANGED <<pc, writes, writers, gammaPassVars, notRenderVars>>

\* The iterator is exhausted: the worker leaves the loop
ExitWorker(w) ==
  /\ pc = "render"
  /\ stage[w] = "idle"
  /\ next > NumPixels
  /\ stage' = [stage EXCEPT ![w] = "exit"]
  /\ UNCHANGED <<pc, next, holding, writes, writers, gammaPassVars, notRenderVars>>

\* The closure, up to *pixel = color.into()
WritePixel(w) ==
  /\ pc = "render"
  /\ stage[w] = "got"
  /\ writes' = [writes EXCEPT ![holding[w]] = @ + 1]
  /\ writers' = [writers EXCEPT ![holding[w]] = @ \cup {w}]
  /\ stage' = [stage EXCEPT ![w] = "wrote"]
  /\ UNCHANGED <<pc, next, holding, gammaPassVars, notRenderVars>>

\* The rest of the closure: the progress counter; the &mut pixel is dropped
FinishPixel(w) ==
  /\ pc = "render"
  /\ stage[w] = "wrote"
  /\ holding' = [holding EXCEPT ![w] = 0]
  /\ stage' = [stage EXCEPT ![w] = "idle"]
  /\ UNCHANGED <<pc, next, writes, writers, gammaPassVars, notRenderVars>>

\* for_each returns when every worker has left the loop
EndLoop ==
  /\ pc = "render"
  /\ \A w \in WorkerIds : stage[w] = "exit"
  /\ pc' = "rendered"
  /\ UNCHANGED <<renderVars, notRenderVars>>

\* canvas.iter_mut().for_each(|p| *p = ...): the gamma correction of the
\* next channel, on the main thread after for_each has returned
GammaStep ==
  /\ pc = "rendered"
  /\ gammaNext <= NumChannels
  /\ gammaDone' = [gammaDone EXCEPT ![gammaNext] = @ + 1]
  /\ gammaNext' = GammaAdvance(gammaNext)
  /\ UNCHANGED <<pc, saved, next, stage, holding, writes, writers, notRenderVars>>

\* canvas.save("output.png"), once iter_mut() is exhausted
Save ==
  /\ pc = "rendered"
  /\ gammaNext > NumChannels
  /\ saved' = TRUE
  /\ pc' = "saved"
  /\ UNCHANGED <<gammaNext, gammaDone, next, stage, holding, writes, writers,
                 notRenderVars>>

NextRender ==
  \/ \E w \in WorkerIds :
       TakePixel(w) \/ ExitWorker(w) \/ WritePixel(w) \/ FinishPixel(w)
  \/ EndLoop
  \/ GammaStep
  \/ Save

SpecRender == InitRender /\ [][NextRender]_vars

\* C7: under every interleaving each pixel is written at most once and by
\* one worker, no two workers hold the same pixel, and when the parallel
\* loop has ended every pixel has been written exactly once.
C7_OneWriterPerPixel ==
  pc \in {"render", "rendered"} =>
    /\ \A p \in Pixels : writes[p] <= 1 /\ Cardinality(writers[p]) <= 1
    /\ \A v, w \in WorkerIds :
         (v # w /\ holding[v] # 0) => holding[v] # holding[w]
    /\ pc = "rendered" =>
         \A p \in Pixels : writes[p] = 1 /\ Cardinality(writers[p]) = 1

\* The loop has ended and both workers wrote pixels
C7_Witness ==
  /\ pc = "rendered"
  /\ \E p, q \in Pixels : writers[p] # writers[q]

\* C16: the gamma pass starts only after every pixel has been written by the
\* parallel loop: a channel is gamma-corrected only when its pixel has its
\* rendered value and no worker is still in the loop, each channel is
\* gamma-corrected at most once and, when the image is handed to the
\* encoder, exactly once.
C16_GammaAfterRender ==
  pc \in {"render", "rendered", "saved"} =>
    /\ \A c \in Channels :
         /\ gammaDone[c] <= 1
         /\ gammaDone[c] > 0 =>
              /\ pc # "render"
              /\ \A p \in Pixels : writes[p] = 1
              /\ \A w \in WorkerIds : stage[w] = "exit"
    /\ (saved \/ pc = "saved") =>
         /\ saved /\ pc = "saved"
         /\ \A c \in Channels : gammaDone[c] = 1

\* The image was saved after a gamma pass over every channel
C16_Witness ==
  /\ pc = "saved"
  /\ saved
  /\ \A c \in Channels : gammaDone[c] = 1
  /\ \E p, q \in Pixels : writers[p] # writers[q]

-----------------------------------------------------------------------------
(* SpecCanvas: canvas.rs, Canvas::set and Canvas::add on a Width x Height *)
(* canvas.  A pixel is one u8 channel.                                    *)

\* u8::MAX, where saturating_add stops
U8Max == 255

\* Canvas::check: whether it panics ("Out of bounds access!")
CheckPanics(dbg, x, y) == dbg /\ (x > Width \/ y > Height)

\* The index of self.data[y * self.width + x]
Index(x, y) == y * Width + x

\* Vec indexing panics when the index is not below the length
IndexPanics(x, y) == Index(x, y) >= NumPixels

SaturatingAdd(a, b) == IF a + b > U8Max THEN U8Max ELSE a + b

\* usize coordinates up to one past the edge of the range check
XCoords == 0..(Width + 1)
YCoords == 0..(Height + 1)

notCanvasVars == <<ray, bvhVars, kernelVars, traceVars, renderVars, unitVars>>

\* Canvas::new(width, height): every pixel is Pixel::default()
InitCanvas ==
  /\ pc = "canvas"
  /\ debug \in BOOLEAN
  /\ data = [i \in 0..(NumPixels - 1) |-> 0]
  /\ lastOp = <<>>
  /\ ray = <<>>
  /\ IdleBvh /\ IdleKernel /\ IdleTrace /\ IdleRender /\ IdleUnit

\* Canvas::set(x, y, p): check, then the indexed store
CanvasSet(x, y, p) ==
  /\ pc = "canvas"
  /\ lastOp' = <<[x |-> x, y |-> y]>>
  /\ IF CheckPanics(debug, x, y)
     THEN pc' = "assertPanic" /\ data' = data
     ELSE IF IndexPanics(x, y)
          THEN pc' = "indexPanic" /\ data' = data
          ELSE pc' = pc /\ data' = [data EXCEPT ![Index(x, y)] = p]
  /\ UNCHANGED <<debug, notCanvasVars>>

\* Canvas::add(x, y, o): get_mut (check, then the indexed borrow), then the
\* saturating sum
CanvasAdd(x, y, o) ==
  /\ pc = "canvas"
  /\ lastOp' = <<[x |-> x, y |-> y]>>
  /\ IF CheckPanics(debug, x, y)
     THEN pc' = "assertPanic" /\ data' = data
     ELSE IF IndexPanics(x, y)
          THEN pc' = "indexPanic" /\ data' = data
          ELSE /\ pc' = pc
               /\ data' = [data EXCEPT ![Index(x, y)] = SaturatingAdd(@, o)]
  /\ UNCHANGED <<debug, notCanvasVars>>

NextCanvas ==
  \/ \E x \in XCoords, y \in YCoords : CanvasSet(x, y, U8Max)
  \/ \E x \in XCoords, y \in YCoords : CanvasAdd(x, y, U8Max)

SpecCanvas == InitCanvas /\ [][NextCanvas]_vars

\* (x, y) is outside [0, Width) x [0, Height)
OutOfRange(op) == op.x >= Width \/ op.y >= Height

\* C8: a pixel write at coordinates outside [0,W) x [0,H) is fatal in a
\* debug build (also at x = W and at y = H) and in a release build is
\* discarded, leaving every pixel of the buffer unchanged.
C8_OutOfRangeWrite ==
  [][(lastOp' # <<>> /\ OutOfRange(lastOp'[1])) =>
       IF debug
       THEN pc' \in {"assertPanic", "indexPanic"}
       ELSE pc' = "canvas" /\ data' = data]_vars

-----------------------------------------------------------------------------
(* SpecTexture: texture.rs, Texture::sample.  A coordinate is a fixed-     *)
(* point number n / Unit; the values used are exact in f32.  A colour is   *)
(* one channel, in units of 1 / (255 * Unit * Unit).                       *)

\* Half of the fixed-point unit: 0.5 is Subdiv / Unit
Subdiv == 2
Unit == 2 * Subdiv
\* Texture coordinates range over -Span .. Span
Span == 2
\* Textures are up to TexMax texels wide and high
TexMax == 2

\* f32::floor and f32::ceil of n / Unit, as integers
Floor(n) == n \div Unit
Ceil(n) == -((-n) \div Unit)

\* Mutant of Sawtooth: the two shifts by 0.5 are left out of the floor
SawtoothRound(n) == n - Unit * Floor(n + Subdiv)

\* (x + 0.5) - (0.5 + (x + 0.5)).floor() + 0.5
Sawtooth(n) == (n + Subdiv) - Unit * Floor(Subdiv + (n + Subdiv)) + Subdiv

\* 2.0 * (x/2.0 - (x/2.0 + 0.5).floor()).abs();  x/2 is n / (2 * Unit)
TriangleWave(n) == Abs(n - 2 * Unit * ((n + Unit) \div (2 * Unit)))

\* The match on self.wrapping
Wrap(wrapping, n) ==
  CASE wrapping = "Repeat" -> Sawtooth(n)
    [] wrapping = "MirroredRepeat" -> TriangleWave(n)
    [] wrapping = "ClampToEdge" -> n

\* Mutant of Clamp01: the coordinate is not clamped
Clamp01None(n) == n

\* f32::clamp(0.0, 1.0)
Clamp01(n) == IF n < 0 THEN 0 ELSE IF n > Unit THEN Unit ELSE n

\* The texel of a test texture at (x, y): all different
TexelValue(x, y) == 10 * x + 3 * y + 1

Texture(w, h, wrapping) ==
  [width |-> w, height |-> h, wrapping |-> wrapping,
   data |-> [x \in 0..(w - 1) |-> [y \in 0..(h - 1) |-> TexelValue(x, y)]]]

\* RgbImage::get_pixel panics when the coordinates are outside the image
GetPixelPanics(t, x, y) == ~(x \in 0..(t.width - 1) /\ y \in 0..(t.height - 1))
GetPixel(t, x, y) == t.data[x][y]

\* Lerp::lerp: a + (b - a) * t, with t = tn / Unit; the result is over Unit
\* times the denominator of a and b
Lerp(a, b, tn) == a * Unit + (b - a) * tn

\* Texture::sample: <<>> when a get_pixel panics
Sample(t, u0, v0) ==
  LET wu == Wrap(t.wrapping, u0)
      wv == Wrap(t.wrapping, v0)
      u == Clamp01(wu)
      v == Clamp01(wv)
      x == u * (t.width - 1)
      y == (Unit - v) * (t.height - 1)
      fx == Floor(x)
      cx == Ceil(x)
      fy == Floor(y)
      cy == Ceil(y)
  IN  IF \/ GetPixelPanics(t, fx, fy) \/ GetPixelPanics(t, cx, fy)
         \/ GetPixelPanics(t, fx, cy) \/ GetPixelPanics(t, cx, cy)
      THEN <<>>
      ELSE LET north == Lerp(GetPixel(t, fx, fy), GetPixel(t, cx, fy),
                             x - fx * Unit)
               south == Lerp(GetPixel(t, fx, cy), GetPixel(t, cx, cy),
                             x - fx * Unit)
           IN  <<[wrapped |-> <<wu, wv>>, clamped |-> <<u, v>>,
                  texels |-> <<fx, cx, fy, cy>>,
                  color |-> Lerp(north, south, y - fy * Unit)]>>

Wrappings == {"Repeat", "MirroredRepeat", "ClampToEdge"}

Textures ==
  {Texture(w, h, m) : w \in 1..TexMax, h \in 1..TexMax, m \in Wrappings}

TexCoords == (-Span * Unit)..(Span * Unit)

notTextureVars ==
  <<ray, bvhVars, kernelVars, traceVars, renderVars, canvasVars, shapeVars,
    skyVars, pixelVars, gammaVars, progressVars>>

InitTexture ==
  /\ pc = "texture"
  /\ texture \in {<<t>> : t \in Textures}
  /\ uv \in {<<[u |-> a, v |-> b]>> : a \in TexCoords, b \in TexCoords}
  /\ sampled = <<>>
  /\ ray = <<>>
  /\ IdleBvh /\ IdleKernel /\ IdleTrace /\ IdleRender /\ IdleCanvas
  /\ IdleShape /\ IdleSky /\ IdlePixel /\ IdleGamma /\ IdleProgress

\* texture.sample(u, v)
SampleTexture ==
  /\ pc = "texture"
  /\ sampled' = Sample(texture[1], uv[1].u, uv[1].v)
  /\ pc' = IF Sample(texture[1], uv[1].u, uv[1].v) = <<>>
           THEN "texturePanic" ELSE "sampled"
  /\ UNCHANGED <<texture, uv, notTextureVars>>

NextTexture == SampleTexture

SpecTexture == InitTexture /\ [][NextTexture]_vars

\* C11: under Repeat the wrapped coordinate of u is in [0,1) and sample(u, v)
\* equals sample(u+1, v); under MirroredRepeat the wrapped coordinate is in
\* [0,1] and sample(u, v) equals sample(-u, v); under ClampToEdge the
\* coordinate is clamped to [0,1].  The same holds of v.
C11_WrapIdentities ==
  pc # "texturePanic" /\
  (pc = "sampled" =>
    LET t == texture[1]
        u == uv[1].u
        v == uv[1].v
        r == sampled[1]
    IN  /\ t.wrapping = "Repeat" =>
             /\ r.wrapped[1] >= 0 /\ r.wrapped[1] < Unit
             /\ r.wrapped[2] >= 0 /\ r.wrapped[2] < Unit
             /\ Sample(t, u + Unit, v) = sampled
             /\ Sample(t, u, v + Unit) = sampled
        /\ t.wrapping = "MirroredRepeat" =>
             /\ r.wrapped[1] >= 0 /\ r.wrapped[1] <= Unit
             /\ r.wrapped[2] >= 0 /\ r.wrapped[2] <= Unit
             /\ Sample(t, -u, v) = sampled
             /\ Sample(t, u, -v) = sampled
        /\ t.wrapping = "ClampToEdge" =>
             /\ r.clamped[1] = (IF u < 0 THEN 0 ELSE IF u > Unit THEN Unit ELSE u)
             /\ r.clamped[2] = (IF v < 0 THEN 0 ELSE IF v > Unit THEN Unit ELSE v))

\* A repeating texture sampled between texels at a negative u beyond -1
C11_Witness ==
  /\ pc = "sampled"
  /\ texture[1].wrapping = "Repeat"
  /\ texture[1].width = 2
  /\ uv[1].u < -Unit
  /\ sampled[1].wrapped[1] > 0
  /\ sampled[1].texels[1] # sampled[1].texels[2]

-----------------------------------------------------------------------------
(* SpecTriangle: Triangle::ray_intersection, on triangles that lie in     *)
(* axis planes, where the hit parameter of an axis ray is an integer.     *)

\* Both windings of a right triangle in z = 0, a right triangle in x = 1, the
\* catalogue's triangle and a scalene triangle in y = 2
TestTriangles ==
  { Triangle(1, Vec(0, 0, 0), Vec(4, 0, 0), Vec(0, 4, 0)),
    Triangle(1, Vec(0, 0, 0), Vec(0, 4, 0), Vec(4, 0, 0)),
    Triangle(1, Vec(1, 0, 0), Vec(1, 3, 0), Vec(1, 0, 3)),
    Catalogue[4],
    Triangle(1, Vec(0, 2, 0), Vec(4, 2, 0), Vec(2, 2, 3)) }

\* Ray origins around the test triangles
FarGrid == -1..(Grid + 2)

ShapeRays ==
  {Ray(Vec(a, b, c), d) : a \in FarGrid, b \in FarGrid, c \in FarGrid, d \in Dirs}

notShapeVars ==
  <<bvhVars, kernelVars, traceVars, renderVars, canvasVars, textureVars,
    skyVars, pixelVars, gammaVars, progressVars>>

InitTriangle ==
  /\ pc = "triangle"
  /\ shape \in {<<t>> : t \in TestTriangles}
  /\ ray \in {<<r>> : r \in ShapeRays}
  /\ shapeHit = <<>>
  /\ IdleBvh /\ IdleKernel /\ IdleTrace /\ IdleRender /\ IdleCanvas
  /\ IdleTexture /\ IdleSky /\ IdlePixel /\ IdleGamma /\ IdleProgress

\* shape.ray_intersection(ray) on a triangle
TestTriangle ==
  /\ pc = "triangle"
  /\ shapeHit' = TriangleRayIntersection(shape[1], ray[1])
  /\ pc' = "triangleDone"
  /\ UNCHANGED <<ray, shape, notShapeVars>>

NextTriangle == TestTriangle

SpecTriangle == InitTriangle /\ [][NextTriangle]_vars

\* (p1 - p0) x (p2 - p0): perpendicular to the triangle
FaceCross(t) == Cross(VSub(t.p1, t.p0), VSub(t.p2, t.p0))

\* The point p lies in the closed triangle t: in its plane and on the inner
\* side of each of the three edges
InTriangle(t, p) ==
  LET n == FaceCross(t)
  IN  /\ Dot(n, VSub(p, t.p0)) = 0
      /\ Dot(n, Cross(VSub(t.p1, t.p0), VSub(p, t.p0))) >= 0
      /\ Dot(n, Cross(VSub(t.p2, t.p1), VSub(p, t.p1))) >= 0
      /\ Dot(n, Cross(VSub(t.p0, t.p2), VSub(p, t.p2))) >= 0

\* The parameters t > 0 at which a ray of ShapeRays can meet a test triangle
TriReach == 1..(Grid + 4)

\* C12: a triangle is hit exactly when the ray is not parallel to it and
\* start + t*dir lies in the closed triangle for some t > 0 (barycentric
\* coordinates 0 <= u <= 1, v >= 0, u + v <= 1); the hit point is that
\* point, front is true, and the normal is the unit face normal turned to
\* face the ray: normal . dir <= 0.
C12_TriangleHit ==
  pc = "triangleDone" =>
    LET t == shape[1]
        r == ray[1]
        n == FaceCross(t)
        len == Sqrt(Dot(n, n))
    IN  /\ (shapeHit # <<>>) <=>
             /\ Dot(n, r.dir) # 0
             /\ \E k \in TriReach : InTriangle(t, PointAt(r, k))
        /\ shapeHit # <<>> =>
             /\ \E k \in TriReach :
                  /\ shapeHit[1].point = PointAt(r, k)
                  /\ InTriangle(t, PointAt(r, k))
             /\ shapeHit[1].front = TRUE
             /\ shapeHit[1].normal \in {QVec(n, len), QVec(VNeg(n), len)}
             /\ Dot(shapeHit[1].normal, r.dir) <= 0

\* The example of the claim, four times as large: the triangle (0,0,0),
\* (4,0,0), (0,4,0) and the ray from (1,1,4) along -z, hit at (1,1,0)
C12_Witness ==
  /\ pc = "triangleDone"
  /\ shape[1] = Triangle(1, Vec(0, 0, 0), Vec(4, 0, 0), Vec(0, 4, 0))
  /\ ray[1] = Ray(Vec(1, 1, 4), Vec(0, 0, -1))
  /\ shapeHit # <<>>
  /\ shapeHit[1].point = Vec(1, 1, 0)
  /\ shapeHit[1].front = TRUE
  /\ shapeHit[1].normal = QVec(Vec(0, 0, 16), 16)

-----------------------------------------------------------------------------
(* SpecPlane: Plane::ray_intersection, on planes with an axis normal *)

\* Planes through (0, -1, 0) and through (1, 2, 0), facing each way along
\* each axis
TestPlanes ==
  {Plane(1, p, n) : p \in {Vec(0, -1, 0), Vec(1, 2, 0)}, n \in Dirs}

InitPlane ==
  /\ pc = "plane"
  /\ shape \in {<<s>> : s \in TestPlanes}
  /\ ray \in {<<r>> : r \in ShapeRays}
  /\ shapeHit = <<>>
  /\ IdleBvh /\ IdleKernel /\ IdleTrace /\ IdleRender /\ IdleCanvas
  /\ IdleTexture /\ IdleSky /\ IdlePixel /\ IdleGamma /\ IdleProgress

\* shape.ray_intersection(ray) on a plane
TestPlane ==
  /\ pc = "plane"
  /\ shapeHit' = PlaneRayIntersection(shape[1], ray[1])
  /\ pc' = "planeDone"
  /\ UNCHANGED <<ray, shape, notShapeVars>>

NextPlane == TestPlane

SpecPlane == InitPlane /\ [][NextPlane]_vars

\* The point p lies on the plane s
OnPlane(s, p) == Dot(s.normal, VSub(p, s.pos)) = 0

\* The parameters t >= 0 at which a ray of ShapeRays can meet a test plane
PlaneReach == 0..(Grid + 4)

-----------------------------------------------------------------------------
(* SpecSky: main.rs trace, the branch taken when scene.intersects(&ray)   *)
(* is None.  A colour is three exact fractions over one denominator.      *)

Color(r, g, b, d) == [r |-> r, g |-> g, b |-> b, den |-> d]

\* Color::new(0.1, 0.4, 0.7) and Color::new(0.7, 0.8, 0.9), in tenths
SkyLow == Color(1, 4, 7, 10)
SkyHigh == Color(7, 8, 9, 10)

\* Color::new(0.1, 0.4, 0.7).lerp(Color::new(0.7, 0.8, 0.9), dir.y/2 + 0.5):
\* a + (b - a) * t with t = (dir.y + 1) / 2
Sky(dir) ==
  Color(2 * SkyLow.r + (SkyHigh.r - SkyLow.r) * (dir.y + 1),
        2 * SkyLow.g + (SkyHigh.g - SkyLow.g) * (dir.y + 1),
        2 * SkyLow.b + (SkyHigh.b - SkyLow.b) * (dir.y + 1),
        2 * SkyLow.den)

\* ray.dir.dot((*light_source - ray.start).normalize()), as a fraction
Shadow(r, light) ==
  LET to_light == Normalize(VSub(light, r.start))
  IN  [n |-> Dot(r.dir, to_light), d |-> to_light.den]

\* shadow > 0.9
ShadowAbove(sh) == 10 * sh.n > 9 * sh.d

\* The else branch of trace: Color::splat(shadow) or the sky gradient
MissColor(r, light) ==
  LET shadow == Shadow(r, light)
  IN  IF ShadowAbove(shadow)
      THEN Color(shadow.n, shadow.n, shadow.n, shadow.d)
      ELSE Sky(r.dir)

\* let light_source = Vec3::new(0.0, 100.0, 0.0), nearer to the grid
LightSources == {Vec(0, 12, 0)}

\* Ray origins from which the light is at an integer distance: straight
\* below and above it, and at the 3-4-5 and 5-12-13 offsets
SkyStarts ==
  {p \in {Vec(a, b, c) : a \in {-5, -3, 0, 3, 5}, b \in {0, 8, 16},
                         c \in {-5, -3, 0, 3, 5}} :
     \A l \in LightSources :
       DistanceSquared(l, p) > 0 /\ IsSquare(DistanceSquared(l, p))}

SkyRays == {Ray(p, d) : p \in SkyStarts, d \in Dirs}

notSkyVars ==
  <<bvhVars, kernelVars, traceVars, renderVars, canvasVars, textureVars,
    shapeVars, pixelVars, gammaVars, progressVars>>

InitSky ==
  /\ pc = "miss"
  /\ ray \in {<<r>> : r \in SkyRays}
  /\ light_source \in {<<l>> : l \in LightSources}
  /\ missColor = <<>>
  /\ IdleBvh /\ IdleKernel /\ IdleTrace /\ IdleRender /\ IdleCanvas
  /\ IdleTexture /\ IdleShape /\ IdlePixel /\ IdleGamma /\ IdleProgress

\* trace(scene, light_source, ray, count) when the ray hits no shape
TraceBackground ==
  /\ pc = "miss"
  /\ missColor' = <<MissColor(ray[1], light_source[1])>>
  /\ pc' = "missDone"
  /\ UNCHANGED <<ray, light_source, notSkyVars>>

NextSky == TraceBackground

SpecSky == InitSky /\ [][NextSky]_vars

\* Two colours are the same fractions
ColorEq(c, e) ==
  /\ c.r * e.den = e.r * c.den
  /\ c.g * e.den = e.g * c.den
  /\ c.b * e.den = e.b * c.den

\* The sky gradient lerp((0.1,0.4,0.7), (0.7,0.8,0.9), dir.y/2 + 0.5), in
\* twentieths, written out for the three values dir.y takes
SkyGradient(dir) ==
  CASE dir.y = -1 -> Color(2, 8, 14, 20)
    [] dir.y = 0 -> Color(8, 12, 16, 20)
    [] dir.y = 1 -> Color(14, 16, 18, 20)

\* The values "about 30" of the sun's intensity
SunIntensities == 20..40

\* C14: a ray that hits nothing gets the sky gradient and, when
\* s = ray.dir . sun_dir >= 0.95, the sky gradient plus WHITE * I_sun; below
\* the threshold it gets the sky gradient alone.
C14_SkyPlusSun ==
  pc = "missDone" =>
    LET r == ray[1]
        s == Shadow(r, light_source[1])
        sky == SkyGradient(r.dir)
    IN  IF 100 * s.n >= 95 * s.d
        THEN \E i \in SunIntensities :
               ColorEq(missColor[1],
                       Color(sky.r + i * sky.den, sky.g + i * sky.den,
                             sky.b + i * sky.den, sky.den))
        ELSE ColorEq(missColor[1], sky)

-----------------------------------------------------------------------------
(* SpecPixel: main.rs, the closure of the pixel loop on one channel of one *)
(* pixel: the sum of NUM_SAMPLES trace results, the division and the       *)
(* conversion color.into().  The sum is kept as an integer; the mean is    *)
(* sum / NUM_SAMPLES, exact in f32, as is its product with 255.            *)

\* const NUM_SAMPLES: usize = 256
NUM_SAMPLES == 256

\* What trace returns for the channel: black, white, or twice white
TraceValues == {0, 1, 2}

\* x.clamp(0.0, 1.0) of the fraction n / d, as a numerator over d
ClampUnit(n, d) == IF n < 0 THEN 0 ELSE IF n > d THEN d ELSE n

\* (x * 255.0) as u8: the cast truncates, and saturates at 0 and 255
AsU8(n, d) ==
  LET q == (U8Max * n) \div d
  IN  IF q < 0 THEN 0 ELSE IF q > U8Max THEN U8Max ELSE q

\* impl Into<Rgb<u8>> for Color, on the channel n / d
IntoU8(n, d) == AsU8(ClampUnit(n, d), d)

notPixelVars ==
  <<ray, bvhVars, kernelVars, traceVars, renderVars, canvasVars, textureVars,
    shapeVars, skyVars, gammaVars, progressVars>>

\* let mut color = Color::BLACK
InitPixel ==
  /\ pc = "pixel"
  /\ samples = 0
  /\ color = 0
  /\ pixel = <<>>
  /\ ray = <<>>
  /\ IdleBvh /\ IdleKernel /\ IdleTrace /\ IdleRender /\ IdleCanvas
  /\ IdleTexture /\ IdleShape /\ IdleSky /\ IdleGamma /\ IdleProgress

\* One round of for _ in 0..NUM_SAMPLES: color += trace(..)
AddSample ==
  /\ pc = "pixel"
  /\ samples < NUM_SAMPLES
  /\ \E c \in TraceValues : color' = color + c
  /\ samples' = samples + 1
  /\ UNCHANGED <<pc, pixel, notPixelVars>>

\* color /= NUM_SAMPLES as f32; *pixel = color.into()
StorePixel ==
  /\ pc = "pixel"
  /\ samples = NUM_SAMPLES
  /\ pixel' = <<IntoU8(color, NUM_SAMPLES)>>
  /\ pc' = "pixelDone"
  /\ UNCHANGED <<samples, color, notPixelVars>>

NextPixel == AddSample \/ StorePixel

SpecPixel == InitPixel /\ [][NextPixel]_vars

\* The ACES curve (x(2.51x + 0.03)) / (x(2.43x + 0.59) + 0.14) at x = s / n,
\* as a fraction: both parts times 100 * n * n
AcesNum(s, n) == s * (251 * s + 3 * n)
AcesDen(s, n) == s * (243 * s + 59 * n) + 14 * n * n

\* round(255 * n / d) for 0 <= n <= d, by long division (255 = 15 * 17)
Round255(n, d) ==
  LET q1 == (15 * n) \div d
      r1 == (15 * n) % d
      q2 == (17 * r1) \div d
      r2 == (17 * r1) % d
  IN  17 * q1 + q2 + (IF 2 * r2 >= d THEN 1 ELSE 0)

\* C15: the channel written is round(255 * clamp(ACES(sum / N), 0, 1)): the
\* sum divided by N, tone-mapped, clamped and converted to the nearest
\* integer, which is in 0..255.
C15_ToneMapRound ==
  pc = "pixelDone" =>
    LET num == AcesNum(color, NUM_SAMPLES)
        den == AcesDen(color, NUM_SAMPLES)
    IN  /\ pixel[1] \in 0..U8Max
        /\ pixel[1] = Round255(ClampUnit(num, den), den)

-----------------------------------------------------------------------------
(* SpecConstruct: Bvh::construct(shapes, 0) alone, on scenes large enough  *)
(* for the recursion to sort at the depths 0, 1 and 2.                     *)

\* Most shapes in a scene that is only built
MaxBuild == 5

BuildScenes ==
  UNION {{sc \in ScenesOfLen(n) : Distinct(sc)} : n \in 0..MaxBuild}

InitConstruct ==
  /\ pc = "scene"
  /\ scene \in BuildScenes
  /\ shapes_ref = scene
  /\ bvh = <<>>
  /\ ray = <<>>
  /\ bvhHit = <<>>
  /\ bruteHit = <<>>
  /\ IdleKernel
  /\ IdleRest

NextConstruct == BuildBvh

SpecConstruct == InitConstruct /\ [][NextConstruct]_vars

\* The key of shape a at depth d is less than that of b: position x at an
\* even depth, position y at an odd one
KeyLt(a, b, d) ==
  LET pa == Position(a)
      pb == Position(b)
  IN  IF d % 2 = 0
      THEN pa.x * pb.den < pb.x * pa.den
      ELSE pa.y * pb.den < pb.y * pa.den

\* The place of input[i] in the order by key, equal keys in input order
Rank(input, i, d) ==
  1 + Cardinality({j \in 1..Len(input) :
                     \/ KeyLt(input[j], input[i], d)
                     \/ (~KeyLt(input[i], input[j], d) /\ j < i)})

StableOrder(input, d) ==
  [k \in 1..Len(input) |->
     input[CHOOSE i \in 1..Len(input) : Rank(input, i, d) = k]]

\* The subtree node is what the claim describes for the shapes input at
\* depth d
RECURSIVE Conforms(_, _, _)
Conforms(node, input, d) ==
  IF Len(input) = 1
  THEN IsLeaf(node) /\ node.shape = <<input[1]>>
  ELSE LET n == Len(input)
           h == n \div 2
           order == StableOrder(input, d)
       IN  /\ IsInner(node)
           /\ LET left == Leaves(node.lhs[1])
                  right == Leaves(node.rhs[1])
              IN  /\ Len(left) = h
                  /\ \A i \in 1..Len(left), j \in 1..Len(right) :
                       ~KeyLt(right[j], left[i], d)
           /\ Conforms(node.lhs[1], SubSeq(order, 1, h), d + 1)
           /\ Conforms(node.rhs[1], SubSeq(order, h + 1, n), d + 1)

\* C17: at depth d with n >= 2 shapes the build orders them by position x
\* (d even) or y (d odd), equal keys in input order, gives the first
\* floor(n/2) to the left subtree and the rest to the right and recurses
\* with d + 1; every key on the left is <= every key on the right.
C17_SplitOrder ==
  pc = "built" => Conforms(bvh[1], scene, 0)

\* Five shapes, so that a slice is sorted at depth 2, the first two of them
\* with equal x
C17_Witness ==
  /\ pc = "built"
  /\ Len(scene) = 5
  /\ ~KeyLt(scene[1], scene[2], 0) /\ ~KeyLt(scene[2], scene[1], 0)
  /\ IsInner(bvh[1].rhs[1].rhs[1])

\* The inner nodes of a tree
InnerCount(node) ==
  Cardinality({k \in 1..Len(Nodes(node)) : IsInner(Nodes(node)[k])})

\* The number of edges on the longest path from the node to a leaf
RECURSIVE TreeHeight(_)
TreeHeight(node) ==
  IF node.lhs = <<>> \/ node.rhs = <<>> THEN 0
  ELSE LET l == TreeHeight(node.lhs[1])
           r == TreeHeight(node.rhs[1])
       IN  1 + (IF l > r THEN l ELSE r)

\* ceil(log2 n) for n >= 1
RECURSIVE CeilLog2(_)
CeilLog2(n) == IF n <= 1 THEN 0 ELSE 1 + CeilLog2((n + 1) \div 2)

\* C18: for n >= 1 shapes the build returns without reaching the
\* empty-sequence panic; the two halves of every split are non-empty and
\* differ in size by at most one; the tree has n leaves and n - 1 inner
\* nodes and its height is at most ceil(log2 n).
C18_BuildTerminates ==
  (pc # "scene" /\ Len(scene) >= 1) =>
     /\ pc = "built"
     /\ bvh # <<>>
     /\ LET nodes == Nodes(bvh[1])
            n == Len(scene)
        IN  /\ \A k \in 1..Len(nodes) :
                 (nodes[k].lhs # <<>> /\ nodes[k].rhs # <<>>) =>
                   LET l == Len(Leaves(nodes[k].lhs[1]))
                       r == Len(Leaves(nodes[k].rhs[1]))
                   IN  l >= 1 /\ r >= 1 /\ r - l \in {0, 1}
            /\ Len(Leaves(bvh[1])) = n
            /\ InnerCount(bvh[1]) = n - 1
            /\ Len(nodes) = 2 * n - 1
            /\ TreeHeight(bvh[1]) <= CeilLog2(n)

\* A tree of five leaves and height 3
C18_Witness ==
  /\ pc = "built"
  /\ Len(scene) = 5
  /\ Len(Leaves(bvh[1])) = 5
  /\ TreeHeight(bvh[1]) = 3

-----------------------------------------------------------------------------
(* SpecProgress: main.rs, the progress counter of the parallel pixel loop. *)
(* The image has ten times count_fraction pixels, as 1600 x 900 has.       *)

\* count_fraction = width * height / 10 (144000 for 1600 x 900)
Tenth == 2
ProgressPixels == 10 * Tenth
CountFraction == ProgressPixels \div 10

\* The percentages a progress line can show
Percents == {10 * k : k \in 0..10}

\* Mutant of FetchAddResult: the new value is returned
FetchAddResultNew(c) == c + 1

\* AtomicUsize::fetch_add returns the previous value
FetchAddResult(c) == c

notProgressVars ==
  <<ray, bvhVars, kernelVars, traceVars, canvasVars, textureVars, shapeVars,
    skyVars, pixelVars, gammaVars, holding, writes, writers, gammaPassVars>>

\* let count = AtomicUsize::new(0), and the workers at the start of the loop
InitProgress ==
  /\ pc = "progress"
  /\ next = 1
  /\ stage = [w \in WorkerIds |-> "idle"]
  /\ counter = 0
  /\ val = [w \in WorkerIds |-> -1]
  /\ seen = [v \in 0..ProgressPixels |-> 0]
  /\ printed = [p \in Percents |-> 0]
  /\ holding = <<>> /\ writes = <<>> /\ writers = <<>>
  /\ gammaNext = 0 /\ gammaDone = <<>> /\ saved = FALSE
  /\ ray = <<>>
  /\ IdleBvh /\ IdleKernel /\ IdleTrace /\ IdleCanvas
  /\ IdleTexture /\ IdleShape /\ IdleSky /\ IdlePixel /\ IdleGamma

\* A worker takes the next pixel from the shared iterator
ProgressTake(w) ==
  /\ pc = "progress"
  /\ stage[w] = "idle"
  /\ next <= ProgressPixels
  /\ next' = Advance(next)
  /\ stage' = [stage EXCEPT ![w] = "got"]
  /\ UNCHANGED <<pc, progressVars, notProgressVars>>

\* The iterator is exhausted: the worker leaves the loop
ProgressExit(w) ==
  /\ pc = "progress"
  /\ stage[w] = "idle"
  /\ next > ProgressPixels
  /\ stage' = [stage EXCEPT ![w] = "exit"]
  /\ UNCHANGED <<pc, next, progressVars, notProgressVars>>

\* The closure up to let val = count.fetch_add(1, Relaxed): one atomic
\* read-modify-write
FetchAdd(w) ==
  /\ pc = "progress"
  /\ stage[w] = "got"
  /\ val' = [val EXCEPT ![w] = FetchAddResult(counter)]
  /\ seen' = [seen EXCEPT ![FetchAddResult(counter)] = @ + 1]
  /\ counter' = counter + 1
  /\ stage' = [stage EXCEPT ![w] = "counted"]
  /\ UNCHANGED <<pc, next, printed, notProgressVars>>

\* if val % count_fraction == 0 { println!("{} % done", val/count_fraction * 10) }
Report(w) ==
  /\ pc = "progress"
  /\ stage[w] = "counted"
  /\ printed' = IF val[w] % CountFraction = 0
                THEN [printed EXCEPT ![(val[w] \div CountFraction) * 10] = @ + 1]
                ELSE printed
  /\ val' = [val EXCEPT ![w] = -1]
  /\ stage' = [stage EXCEPT ![w] = "idle"]
  /\ UNCHANGED <<pc, next, counter, seen, notProgressVars>>

\* for_each returns when every worker has left the loop
ProgressEnd ==
  /\ pc = "progress"
  /\ \A w \in WorkerIds : stage[w] = "exit"
  /\ pc' = "progressDone"
  /\ UNCHANGED <<next, stage, progressVars, notProgressVars>>

NextProgress ==
  \/ \E w \in WorkerIds :
       ProgressTake(w) \/ ProgressExit(w) \/ FetchAdd(w) \/ Report(w)
  \/ ProgressEnd

SpecProgress == InitProgress /\ [][NextProgress]_vars

\* C19: the counter is incremented once per pixel; each value 0..W*H-1 is
\* returned to exactly one worker and no other value to any; the counter
\* ends at W*H; each line 0 %, 10 %, ..., 90 % is printed exactly once and no
\* line for 100 %.
C19_ProgressOnce ==
  pc \in {"progress", "progressDone"} =>
    /\ \A v \in 0..ProgressPixels : seen[v] = (IF v < counter THEN 1 ELSE 0)
    /\ counter <= ProgressPixels
    /\ \A v, w \in WorkerIds : (v # w /\ val[v] # -1) => val[v] # val[w]
    /\ \A p \in Percents : printed[p] <= 1
    /\ printed[100] = 0
    /\ pc = "progressDone" =>
         /\ counter = ProgressPixels
         /\ \A p \in Percents : printed[p] = (IF p < 100 THEN 1 ELSE 0)

\* The loop has ended with every line printed
C19_Witness ==
  /\ pc = "progressDone"
  /\ counter = ProgressPixels
  /\ printed[0] = 1 /\ printed[90] = 1

-----------------------------------------------------------------------------
(* SpecGamma: main.rs, the gamma correction of one u8 channel p, which    *)
(* becomes sqrt(p as f64 / 256.0) * 256.0 cast back to u8.                *)

\* The divisor and the factor of the gamma correction
GammaScale == 256

\* Mutant of GammaMap: the square in place of the square root
GammaMapSquare(p) == (p * p) \div GammaScale

\* ((p / 256.0).sqrt() * 256.0) as u8.  p / 256 and the product with 256 are
\* exact in f64 and sqrt is correctly rounded, so the cast truncates
\* sqrt(256 * p); it saturates at 255
GammaMap(p) ==
  LET k == CHOOSE k \in 0..GammaScale :
             k * k <= GammaScale * p /\ (k + 1) * (k + 1) > GammaScale * p
  IN  IF k > U8Max THEN U8Max ELSE k

notGammaVars ==
  <<ray, bvhVars, kernelVars, traceVars, renderVars, canvasVars, textureVars,
    shapeVars, skyVars, pixelVars, progressVars>>

InitGamma ==
  /\ pc = "gamma"
  /\ gammaIn \in {<<p>> : p \in 0..U8Max}
  /\ gammaOut = <<>>
  /\ ray = <<>>
  /\ IdleBvh /\ IdleKernel /\ IdleTrace /\ IdleRender /\ IdleCanvas
  /\ IdleTexture /\ IdleShape /\ IdleSky /\ IdlePixel /\ IdleProgress

\* The closure of canvas.iter_mut().for_each on one channel
ApplyGamma ==
  /\ pc = "gamma"
  /\ gammaOut' = <<GammaMap(gammaIn[1])>>
  /\ pc' = "gammaDone"
  /\ UNCHANGED <<gammaIn, notGammaVars>>

NextGamma == ApplyGamma

SpecGamma == InitGamma /\ [][NextGamma]_vars

\* C20: the gamma mapping sends every p in 0..255 to floor(sqrt(p/256)*256),
\* a value in 0..255 reached without saturation or wrap-around; it sends 0
\* to 0, is non-decreasing, and never lowers a value.
C20_GammaMapping ==
  pc = "gammaDone" =>
    LET p == gammaIn[1]
        g == gammaOut[1]
    IN  /\ g \in 0..U8Max
        /\ g * g <= 256 * p /\ (g + 1) * (g + 1) > 256 * p
        /\ p = 0 => g = 0
        /\ g >= p
        /\ \A q \in 0..p : GammaMap(q) <= g

\* The brightest channel value keeps its value
C20_Witness ==
  pc = "gammaDone" /\ gammaIn = <<U8Max>> /\ gammaOut = <<U8Max>>

-----------------------------------------------------------------------------
(* Texture::sample under SpecTexture: the texels it reads *)

\* C21: for a texture at least one texel wide and high and any (u, v) under
\* any wrap mode, the four texel coordinates floor(x), ceil(x), floor(y),
\* ceil(y) lie in [0, width-1] x [0, height-1]: no get_pixel is out of range.
C21_TexelsInRange ==
  /\ pc # "texturePanic"
  /\ pc = "sampled" =>
       LET t == texture[1]
           fx == sampled[1].texels[1]
           cx == sampled[1].texels[2]
           fy == sampled[1].texels[3]
           cy == sampled[1].texels[4]
       IN  /\ 0 <= fx /\ fx <= cx /\ cx <= t.width - 1
           /\ 0 <= fy /\ fy <= cy /\ cy <= t.height - 1

\* A coordinate beyond 1 under ClampToEdge reads the last column, and one
\* below 0 in v the last row
C21_Witness ==
  /\ pc = "sampled"
  /\ texture[1].wrapping = "ClampToEdge"
  /\ texture[1].width = TexMax /\ texture[1].height = TexMax
  /\ uv[1].u > Unit /\ uv[1].v < 0
  /\ sampled[1].texels = <<TexMax - 1, TexMax - 1, TexMax - 1, TexMax - 1>>

=============================================================================
